---- MODULE Spec2Model ----
(***************************************************************************)
(* A model of the welfare-diplomacy experiment harness:                    *)
(*   - experiments/agents.py: RandomAgent, ManualAgent, APIAgent and       *)
(*     NoPressAgent, each with its respond method;                         *)
(*   - experiments/simulate_game.py: the turn loop of main;                *)
(*   - experiments/utils.py: get_game_year.                                *)
(* Python strings are sequences of one-character strings, so that          *)
(* split, strip, index, join, upper, sort and json.loads are computed      *)
(* character by character as the interpreter computes them.                *)
(***************************************************************************)
EXTENDS Integers, Sequences, FiniteSets, TLC

(***************************************************************************)
(* Python string primitives.                                               *)
(***************************************************************************)

Range(s) == {s[k] : k \in DOMAIN s}

SetMin(S) == CHOOSE m \in S : \A n \in S : m <= n
SetMax(S) == CHOOSE m \in S : \A n \in S : m >= n

LowerChars == <<"a","b","c","d","e","f","g","h","i","j","k","l","m",
                "n","o","p","q","r","s","t","u","v","w","x","y","z">>

UpperChars == <<"A","B","C","D","E","F","G","H","I","J","K","L","M",
                "N","O","P","Q","R","S","T","U","V","W","X","Y","Z">>

DigitChars == <<"0","1","2","3","4","5","6","7","8","9">>

\* str.upper() on one character
UpperChar(c) ==
  IF \E k \in DOMAIN LowerChars : LowerChars[k] = c
  THEN UpperChars[CHOOSE k \in DOMAIN LowerChars : LowerChars[k] = c]
  ELSE c

\* str.upper()
Upper(s) == [k \in DOMAIN s |-> UpperChar(s[k])]

\* The code point order of the characters the model uses: space, digits,
\* upper-case letters, lower-case letters (as in ASCII); 0 for the rest.
CharCode(c) ==
  IF c = " " THEN 32
  ELSE IF \E k \in DOMAIN DigitChars : DigitChars[k] = c
  THEN 47 + (CHOOSE k \in DOMAIN DigitChars : DigitChars[k] = c)
  ELSE IF \E k \in DOMAIN UpperChars : UpperChars[k] = c
  THEN 64 + (CHOOSE k \in DOMAIN UpperChars : UpperChars[k] = c)
  ELSE IF \E k \in DOMAIN LowerChars : LowerChars[k] = c
  THEN 96 + (CHOOSE k \in DOMAIN LowerChars : LowerChars[k] = c)
  ELSE 0

\* a < b on Python strings (lexicographic by code point)
RECURSIVE StrLess(_, _)
StrLess(a, b) ==
  IF b = <<>> THEN FALSE
  ELSE IF a = <<>> THEN TRUE
  ELSE IF CharCode(Head(a)) # CharCode(Head(b))
       THEN CharCode(Head(a)) < CharCode(Head(b))
  ELSE StrLess(Tail(a), Tail(b))

\* list.sort() of a list of strings: insertion of each element in turn
RECURSIVE InsertSorted(_, _)
InsertSorted(x, l) ==
  IF l = <<>> THEN <<x>>
  ELSE IF StrLess(x, Head(l)) THEN <<x>> \o l
  ELSE <<Head(l)>> \o InsertSorted(x, Tail(l))

RECURSIVE SortList(_)
SortList(l) ==
  IF l = <<>> THEN <<>>
  ELSE InsertSorted(l[Len(l)], SortList(SubSeq(l, 1, Len(l) - 1)))

\* s[-2:]
LastTwo(s) == IF Len(s) <= 2 THEN s ELSE SubSeq(s, Len(s) - 1, Len(s))

\* sub in s
Contains(s, sub) ==
  \E k \in 1..(Len(s) - Len(sub) + 1) : SubSeq(s, k, k + Len(sub) - 1) = sub

\* sep.join(l) for a list of strings
RECURSIVE Join(_, _)
Join(sep, l) ==
  IF l = <<>> THEN <<>>
  ELSE IF Len(l) = 1 THEN l[1]
  ELSE l[1] \o sep \o Join(sep, Tail(l))

\* s.split(): the words of s, separated by runs of whitespace
RECURSIVE SplitWords(_, _, _)
SplitWords(s, cur, acc) ==
  IF s = <<>> THEN (IF cur = <<>> THEN acc ELSE Append(acc, cur))
  ELSE IF Head(s) \in {" ", "\n", "\t"}
       THEN SplitWords(Tail(s), <<>>, IF cur = <<>> THEN acc ELSE Append(acc, cur))
  ELSE SplitWords(Tail(s), Append(cur, Head(s)), acc)

Split(s) == SplitWords(s, <<>>, <<>>)

\* s.split("**")[0]: the text before the first "**"
SplitStarsFirst(s) ==
  LET hits == {k \in 1..(Len(s) - 1) : s[k] = "*" /\ s[k + 1] = "*"}
  IN IF hits = {} THEN s ELSE SubSeq(s, 1, SetMin(hits) - 1)

\* The backquote character (TLA+ strings cannot hold it).
BackQuote == "BACKQUOTE"

\* s.strip(" `\n"): the characters stripped are space, backquote, newline
StripChars == {" ", BackQuote, "\n"}

Strip(s) ==
  LET kept == {k \in DOMAIN s : s[k] \notin StripChars}
  IN IF kept = {} THEN <<>> ELSE SubSeq(s, SetMin(kept), SetMax(kept))

\* s.index(c) as a 1-based position, 0 when str.index raises ValueError
Index(s, c) ==
  IF c \in Range(s) THEN SetMin({k \in DOMAIN s : s[k] = c})
  ELSE 0

\* s.rindex(c) as a 1-based position, 0 when str.rindex raises ValueError
RIndex(s, c) ==
  IF c \in Range(s) THEN SetMax({k \in DOMAIN s : s[k] = c})
  ELSE 0

\* str(n) for an int n >= 0
RECURSIVE IntToStr(_)
IntToStr(n) ==
  IF n < 10 THEN <<DigitChars[n + 1]>>
  ELSE IntToStr(n \div 10) \o <<DigitChars[(n % 10) + 1]>>

(***************************************************************************)
(* json.loads(text, strict=False) on the fragment of JSON the inputs use:  *)
(* objects, arrays, strings without escapes, non-negative integers, true,  *)
(* false and null.  A value is a record tagged by its Python type.         *)
(***************************************************************************)

JStr(s)  == [t |-> "str",  v |-> s]
JInt(n)  == [t |-> "int",  v |-> n]
JList(l) == [t |-> "list", v |-> l]
JDict(d) == [t |-> "dict", v |-> d]
JBool(b) == [t |-> "bool", v |-> b]
JNone    == [t |-> "NoneType", v |-> 0]

Fail == [ok |-> FALSE, val |-> JNone, pos |-> 0]
Ok(val, pos) == [ok |-> TRUE, val |-> val, pos |-> pos]

WhiteSpace == {" ", "\n", "\t", "\r"}

RECURSIVE SkipWs(_, _)
SkipWs(s, i) ==
  IF i <= Len(s) /\ s[i] \in WhiteSpace THEN SkipWs(s, i + 1) ELSE i

At(s, i, c) == i <= Len(s) /\ s[i] = c

IsDigit(c) == \E k \in DOMAIN DigitChars : DigitChars[k] = c
DigitVal(c) == (CHOOSE k \in DOMAIN DigitChars : DigitChars[k] = c) - 1

\* a dict as the sequence of its items in insertion order
DictHas(d, k) == \E j \in DOMAIN d : d[j].k = k
DictGet(d, k) == d[CHOOSE j \in DOMAIN d : d[j].k = k].v
DictSet(d, k, v) ==
  IF DictHas(d, k)
  THEN [j \in DOMAIN d |-> IF d[j].k = k THEN [k |-> k, v |-> v] ELSE d[j]]
  ELSE Append(d, [k |-> k, v |-> v])

\* py_scanstring: s[i] is the opening quote
ParseString(s, i) ==
  LET rest == {j \in (i + 1)..Len(s) : s[j] = "\""}
  IN IF rest = {} THEN Fail
     ELSE Ok(SubSeq(s, i + 1, SetMin(rest) - 1), SetMin(rest) + 1)

\* NUMBER_RE: 0 | [1-9][0-9]*
RECURSIVE ParseDigits(_, _, _)
ParseDigits(s, i, acc) ==
  IF i <= Len(s) /\ IsDigit(s[i])
  THEN ParseDigits(s, i + 1, (10 * acc) + DigitVal(s[i]))
  ELSE Ok(JInt(acc), i)

ParseNumber(s, i) ==
  IF s[i] = "0" THEN Ok(JInt(0), i + 1) ELSE ParseDigits(s, i, 0)

Matches(s, i, word) ==
  i + Len(word) - 1 <= Len(s) /\ SubSeq(s, i, i + Len(word) - 1) = word

RECURSIVE ParseValue(_, _)
RECURSIVE ParseElems(_, _, _)
RECURSIVE ParseMembers(_, _, _)

\* JSONArray after the first element's position: value (',' value)* ']'
ParseElems(s, i, acc) ==
  LET r == ParseValue(s, i)
  IN IF ~r.ok THEN Fail
     ELSE LET j == SkipWs(s, r.pos)
          IN IF At(s, j, "]") THEN Ok(JList(Append(acc, r.val)), j + 1)
             ELSE IF At(s, j, ",") THEN ParseElems(s, SkipWs(s, j + 1), Append(acc, r.val))
             ELSE Fail

\* JSONObject at a key's opening quote: string ':' value (',' string ...)* '}'
ParseMembers(s, i, acc) ==
  IF ~At(s, i, "\"") THEN Fail
  ELSE LET key == ParseString(s, i)
       IN IF ~key.ok THEN Fail
          ELSE LET c == SkipWs(s, key.pos)
               IN IF ~At(s, c, ":") THEN Fail
                  ELSE LET r == ParseValue(s, SkipWs(s, c + 1))
                       IN IF ~r.ok THEN Fail
                          ELSE LET j == SkipWs(s, r.pos)
                                   d == DictSet(acc, key.val, r.val)
                               IN IF At(s, j, "}") THEN Ok(JDict(d), j + 1)
                                  ELSE IF At(s, j, ",")
                                       THEN ParseMembers(s, SkipWs(s, j + 1), d)
                                  ELSE Fail

\* scan_once
ParseValue(s, i) ==
  IF i > Len(s) THEN Fail
  ELSE IF s[i] = "\"" THEN
         LET r == ParseString(s, i)
         IN IF r.ok THEN Ok(JStr(r.val), r.pos) ELSE Fail
  ELSE IF s[i] = "{" THEN
         LET j == SkipWs(s, i + 1)
         IN IF At(s, j, "}") THEN Ok(JDict(<<>>), j + 1) ELSE ParseMembers(s, j, <<>>)
  ELSE IF s[i] = "[" THEN
         LET j == SkipWs(s, i + 1)
         IN IF At(s, j, "]") THEN Ok(JList(<<>>), j + 1) ELSE ParseElems(s, j, <<>>)
  ELSE IF Matches(s, i, <<"n","u","l","l">>) THEN Ok(JNone, i + 4)
  ELSE IF Matches(s, i, <<"t","r","u","e">>) THEN Ok(JBool(TRUE), i + 4)
  ELSE IF Matches(s, i, <<"f","a","l","s","e">>) THEN Ok(JBool(FALSE), i + 5)
  ELSE IF IsDigit(s[i]) THEN ParseNumber(s, i)
  ELSE Fail

\* json.loads: one value, surrounded by whitespace only; ok = FALSE stands
\* for json.JSONDecodeError
JsonLoads(s) ==
  LET r == ParseValue(s, SkipWs(s, 1))
  IN IF r.ok /\ SkipWs(s, r.pos) = Len(s) + 1 THEN r ELSE Fail

\* str(x) of a parsed value that is not a str (repr of the strings inside)
RECURSIVE PyRepr(_)
RECURSIVE PyReprItems(_)
RECURSIVE PyReprElems(_)
PyReprElems(l) ==
  IF l = <<>> THEN <<>>
  ELSE IF Len(l) = 1 THEN PyRepr(l[1])
  ELSE PyRepr(l[1]) \o <<",", " ">> \o PyReprElems(Tail(l))

PyReprItems(d) ==
  IF d = <<>> THEN <<>>
  ELSE LET one == <<"'">> \o d[1].k \o <<"'", ":", " ">> \o PyRepr(d[1].v)
       IN IF Len(d) = 1 THEN one ELSE one \o <<",", " ">> \o PyReprItems(Tail(d))

PyRepr(x) ==
  IF x.t = "str" THEN <<"'">> \o x.v \o <<"'">>
  ELSE IF x.t = "int" THEN IntToStr(x.v)
  ELSE IF x.t = "bool" THEN (IF x.v THEN <<"T","r","u","e">> ELSE <<"F","a","l","s","e">>)
  ELSE IF x.t = "NoneType" THEN <<"N","o","n","e">>
  ELSE IF x.t = "list" THEN <<"[">> \o PyReprElems(x.v) \o <<"]">>
  ELSE <<"{">> \o PyReprItems(x.v) \o <<"}">>

PyStr(x) == IF x.t = "str" THEN x.v ELSE PyRepr(x)

(***************************************************************************)
(* APIAgent.respond: the response pipeline (agents.py 225-299).            *)
(* A raised exception is named by its class; NoExc means none was raised.  *)
(***************************************************************************)

NoExc == "none"

\* Every class the try block can raise derives from Exception; the ones
\* that derive from ValueError are listed apart (json.JSONDecodeError and
\* AgentCompletionError are subclasses of ValueError).
ValueErrorClasses == {"ValueError", "JSONDecodeError", "AgentCompletionError"}
ExceptionClasses ==
  ValueErrorClasses \cup {"KeyError", "TypeError", "AttributeError", "BackendError"}

Placeholder ==
  <<"*","m","o","d","e","l"," ","o","u","t","p","u","t","t","e","d"," ",
    "n","o"," ","r","e","a","s","o","n","i","n","g","*">>

EmptyResponse ==
  [reasoning |-> JNone, orders |-> <<>>, messages |-> <<>>,
   prompt_tokens |-> 0, completion_tokens |-> 0, total_tokens |-> 0]

Raised(e) == [exc |-> e, response |-> EmptyResponse]
Returned(r) == [exc |-> NoExc, response |-> r]

\* line 250: json_completion.split("**")[0].strip(" `\n")
CleanCompletion(json_completion) == Strip(SplitStarsFirst(json_completion))

\* SliceObject with the end taken at the first "}" (index for rindex)
SliceObject_FirstClose(text) ==
  LET start == Index(text, "{")
      end   == Index(text, "}")
  IN IF start = 0 \/ end = 0 THEN [exc |-> "ValueError", text |-> <<>>]
     ELSE [exc |-> NoExc, text |-> SubSeq(text, start, end)]

\* lines 253-255: index("{"), rindex("}") + 1 and the slice; exc is
\* ValueError when either character is absent
SliceObject(text) ==
  LET start == Index(text, "{")
      end   == RIndex(text, "}")
  IN IF start = 0 \/ end = 0 THEN [exc |-> "ValueError", text |-> <<>>]
     ELSE [exc |-> NoExc, text |-> SubSeq(text, start, end)]

\* lines 266-270: `for order in orders` with the isinstance check.  The
\* result lists what the loop iterates over: the elements of a list, the
\* characters of a str, the keys of a dict.
CheckOrders(orders) ==
  IF orders.t = "list" THEN
       IF \A k \in DOMAIN orders.v : orders.v[k].t = "str"
       THEN [exc |-> NoExc, orders |-> [k \in DOMAIN orders.v |-> orders.v[k].v]]
       ELSE [exc |-> "AgentCompletionError", orders |-> <<>>]
  ELSE IF orders.t = "str" THEN
       [exc |-> NoExc, orders |-> [k \in DOMAIN orders.v |-> <<orders.v[k]>>]]
  ELSE IF orders.t = "dict" THEN
       [exc |-> NoExc, orders |-> [k \in DOMAIN orders.v |-> orders.v[k].k]]
  ELSE [exc |-> "TypeError", orders |-> <<>>]

\* NormalizeMessage without the test that skips an empty message
NormalizeMessage_KeepEmpty(messages, recipient, message) ==
  IF message.t = "list" /\ \E k \in DOMAIN message.v : message.v[k].t # "str"
  THEN [exc |-> "TypeError", messages |-> <<>>]
  ELSE LET text == IF message.t = "list"
                   THEN Join(<<" ">>, [k \in DOMAIN message.v |-> message.v[k].v])
                   ELSE PyStr(message)
       IN [exc |-> NoExc, messages |-> DictSet(messages, Upper(recipient), text)]

\* lines 277-286: one iteration of the loop over completion["messages"]
NormalizeMessage(messages, recipient, message) ==
  IF message.t = "list" /\ \E k \in DOMAIN message.v : message.v[k].t # "str"
  THEN [exc |-> "TypeError", messages |-> <<>>]
  ELSE LET text == IF message.t = "list"
                   THEN Join(<<" ">>, [k \in DOMAIN message.v |-> message.v[k].v])
                   ELSE PyStr(message)
       IN IF text = <<>> THEN [exc |-> NoExc, messages |-> messages]
          ELSE [exc |-> NoExc, messages |-> DictSet(messages, Upper(recipient), text)]

\* lines 275-286: the loop over the items, in insertion order
RECURSIVE NormalizeMessages(_, _)
NormalizeMessages(items, messages) ==
  IF items = <<>> THEN [exc |-> NoExc, messages |-> messages]
  ELSE LET r == NormalizeMessage(messages, items[1].k, items[1].v)
       IN IF r.exc # NoExc THEN r ELSE NormalizeMessages(Tail(items), r.messages)

\* ExtractMessages without the no_press override
ExtractMessages_NoOverride(completion, no_press) ==
  IF ~DictHas(completion, <<"m","e","s","s","a","g","e","s">>)
  THEN [exc |-> "KeyError", messages |-> <<>>]
  ELSE LET m == DictGet(completion, <<"m","e","s","s","a","g","e","s">>)
       IN IF m.t # "dict" THEN [exc |-> "AttributeError", messages |-> <<>>]
          ELSE NormalizeMessages(m.v, <<>>)

\* lines 272-276: the no_press override, then completion["messages"].items()
ExtractMessages(completion, no_press) ==
  IF no_press THEN [exc |-> NoExc, messages |-> <<>>]
  ELSE IF ~DictHas(completion, <<"m","e","s","s","a","g","e","s">>)
       THEN [exc |-> "KeyError", messages |-> <<>>]
  ELSE LET m == DictGet(completion, <<"m","e","s","s","a","g","e","s">>)
       IN IF m.t # "dict" THEN [exc |-> "AttributeError", messages |-> <<>>]
          ELSE NormalizeMessages(m.v, <<>>)

\* lines 249-286: the body of the try block after the backend call.
\* exc names the exception the body raises, before the except clause.
Pipeline(json_completion, no_press) ==
  LET sliced == SliceObject(CleanCompletion(json_completion))
  IN IF sliced.exc # NoExc THEN Raised(sliced.exc)
     ELSE LET loaded == JsonLoads(sliced.text)
          IN IF ~loaded.ok THEN Raised("JSONDecodeError")
             ELSE LET completion == loaded.val.v
                      reasoning ==
                        IF DictHas(completion, <<"r","e","a","s","o","n","i","n","g">>)
                        THEN DictGet(completion, <<"r","e","a","s","o","n","i","n","g">>)
                        ELSE JStr(Placeholder)
                  IN IF ~DictHas(completion, <<"o","r","d","e","r","s">>)
                     THEN Raised("KeyError")
                     ELSE LET o == CheckOrders(DictGet(completion, <<"o","r","d","e","r","s">>))
                          IN IF o.exc # NoExc THEN Raised(o.exc)
                             ELSE LET m == ExtractMessages(completion, no_press)
                                  IN IF m.exc # NoExc THEN Raised(m.exc)
                                     ELSE Returned([EmptyResponse EXCEPT
                                            !.reasoning = reasoning,
                                            !.orders = o.orders,
                                            !.messages = m.messages])

\* Caught for a clause `except ValueError`
Caught_ValueErrorOnly(e) == e \in ValueErrorClasses

\* line 287: `except Exception as exc`
Caught(e) == e \in ExceptionClasses

\* lines 287-288: what leaves the try statement when its body raised e
ExceptClause(e) == IF Caught(e) THEN "AgentCompletionError" ELSE e

\* BuildResponse with total_tokens taken from the prompt count
BuildResponse_TotalFromPrompt(parsed, backend) ==
  [parsed EXCEPT !.prompt_tokens = backend.prompt_tokens,
                 !.completion_tokens = backend.completion_tokens,
                 !.total_tokens = backend.prompt_tokens]

\* lines 289-299: the AgentResponse built from the parsed fields and the
\* usage counts of the BackendResponse
BuildResponse(parsed, backend) ==
  [parsed EXCEPT !.prompt_tokens = backend.prompt_tokens,
                 !.completion_tokens = backend.completion_tokens,
                 !.total_tokens = backend.total_tokens]

\* lines 225-299.  backend is the outcome of self.backend.complete: either
\* exc = "BackendError", or a BackendResponse; preface is the
\* completion preface ("" when completion_preface is off).
APIAgent_respond(backend, preface, no_press) ==
  IF backend.exc # NoExc THEN Raised(ExceptClause(backend.exc))
  ELSE LET body == Pipeline(preface \o backend.completion, no_press)
       IN IF body.exc # NoExc THEN Raised(ExceptClause(body.exc))
          ELSE Returned(BuildResponse(body.response, backend))

(***************************************************************************)
(* The rules engine (diplomacy.Game), as far as main and the agents use    *)
(* it: two powers with one army each, the phases of a game year, and the   *)
(* legal orders the engine reports for each location.                      *)
(***************************************************************************)

FRANCE  == <<"F","R","A","N","C","E">>
GERMANY == <<"G","E","R","M","A","N","Y">>
GLOBAL  == <<"G","L","O","B","A","L">>
PAR == <<"P","A","R">>
MUN == <<"M","U","N">>

\* game.powers, in the order main iterates over it
POWERS == <<FRANCE, GERMANY>>

Locs == {PAR, MUN}

\* power.units
Units(power) == IF power = FRANCE THEN {<<"A"," ","P","A","R">>} ELSE {<<"A"," ","M","U","N">>}

\* What the engine reports for a phase: the legal orders of each location
\* (game.get_all_possible_orders()) and each power's orderable locations
\* (game.get_orderable_locations(power)).  The engine builds each list of
\* orders from a set, so a list may come in any order; a power may have
\* nothing to order.
MovementViews ==
  { [legal |-> [loc \in Locs |-> IF loc = PAR THEN <<<<"A"," ","P","A","R"," ","B","U","R">>, <<"A"," ","P","A","R"," ","H">>>>
                                              ELSE <<<<"A"," ","M","U","N"," ","T","Y","R">>, <<"A"," ","M","U","N"," ","H">>>>],
     orderable |-> [p \in {FRANCE, GERMANY} |-> IF p = FRANCE THEN <<PAR>> ELSE <<MUN>>]],
    [legal |-> [loc \in Locs |-> IF loc = PAR THEN <<<<"A"," ","P","A","R"," ","H">>>>
                                              ELSE <<<<"A"," ","M","U","N"," ","H">>, <<"A"," ","M","U","N"," ","T","Y","R">>>>],
     orderable |-> [p \in {FRANCE, GERMANY} |-> IF p = FRANCE THEN <<PAR>> ELSE <<>>]] }

AdjustmentViews ==
  { [legal |-> [loc \in Locs |-> IF loc = PAR THEN <<<<"A"," ","P","A","R"," ","D">>>> ELSE <<>>],
     orderable |-> [p \in {FRANCE, GERMANY} |-> IF p = FRANCE THEN <<PAR>> ELSE <<MUN>>]],
    [legal |-> [loc \in Locs |-> IF loc = PAR THEN <<<<"W","A","I","V","E">>, <<"A"," ","P","A","R"," ","B">>>>
                                              ELSE <<<<"A"," ","M","U","N"," ","D">>>>],
     orderable |-> [p \in {FRANCE, GERMANY} |-> IF p = FRANCE THEN <<PAR>> ELSE <<MUN>>]] }

\* The phase after a processed phase: spring and fall movement, winter
\* adjustments, then the next year.
NextPhase(phase) ==
  IF phase.season = "S" THEN [season |-> "F", year |-> phase.year, type |-> "M"]
  ELSE IF phase.season = "F" THEN [season |-> "W", year |-> phase.year, type |-> "A"]
  ELSE [season |-> "S", year |-> phase.year + 1, type |-> "M"]

\* game.get_current_phase(): the short label, "S1901M"
PhaseLabel(phase) == <<phase.season>> \o IntToStr(phase.year) \o <<phase.type>>

\* str(game.phase): the long name, "SPRING 1901 MOVEMENT"
PhaseLongName(phase) ==
  (IF phase.season = "S" THEN <<"S","P","R","I","N","G">>
   ELSE IF phase.season = "F" THEN <<"F","A","L","L">> ELSE <<"W","I","N","T","E","R">>)
  \o <<" ">> \o IntToStr(phase.year) \o <<" ">> \o
  (IF phase.type = "M" THEN <<"M","O","V","E","M","E","N","T">>
   ELSE IF phase.type = "R" THEN <<"R","E","T","R","E","A","T","S">> ELSE <<"A","D","J","U","S","T","M","E","N","T","S">>)

ViewsFor(phase) == IF phase.type = "A" THEN AdjustmentViews ELSE MovementViews

\* game._valid_order(power, unit, destination): the order is one the
\* engine lists for a location
ValidOrder(g, power, unit, destination) ==
  LET order == IF destination = <<>> THEN unit ELSE unit \o <<" ">> \o destination
  IN \E loc \in Locs : order \in Range(g.legal[loc])

\* game.set_orders(power_name, orders)
SetOrders(g, power, orders) == [g EXCEPT !.orders[power] = orders]

\* game.add_message(Message(sender, recipient, message, phase)), once for
\* each item of the response's messages
RECURSIVE AddMessages(_, _, _)
AddMessages(g, sender, items) ==
  IF items = <<>> THEN g
  ELSE AddMessages(
         [g EXCEPT !.messages = Append(@, [sender |-> sender, recipient |-> items[1].k,
                                           message |-> items[1].v,
                                           phase |-> PhaseLabel(g.phase)])],
         sender, Tail(items))

\* game.process(): the phase is recorded in the history, the submitted
\* orders and messages leave the current phase, and the engine moves to
\* the next phase with its legal orders; done tells whether the engine
\* found the game over.
Process(g, view, done) ==
  [g EXCEPT !.history_last = PhaseLabel(g.phase),
            !.phase = NextPhase(g.phase),
            !.orders = [p \in {FRANCE, GERMANY} |-> <<>>],
            !.messages = <<>>,
            !.legal = view.legal,
            !.orderable = view.orderable,
            !.processed = @ + 1,
            !.is_game_done = done]

\* game._finish([])
Finish(g) == [g EXCEPT !.is_game_done = TRUE]

(***************************************************************************)
(* utils.get_game_year and get_game_fractional_year (utils.py 17-37).      *)
(* The fraction is kept in tenths, so that int() is a division.            *)
(***************************************************************************)

RECURSIVE StrToInt(_, _)
StrToInt(s, acc) ==
  IF s = <<>> THEN acc ELSE StrToInt(Tail(s), (10 * acc) + DigitVal(Head(s)))

\* "".join([char for char in phase if char.isdigit()])
DigitsOf(s) == SelectSeq(s, IsDigit)

\* ten times get_game_fractional_year(phase)
get_game_fractional_year_tenths(name) ==
  LET year == StrToInt(DigitsOf(name), 0) - 1900
      season == name[1]
      fraction == IF season = "S" THEN 3
                  ELSE IF season = "F" THEN 6
                  ELSE IF season = "W" THEN 9 ELSE 0
  IN (10 * year) + fraction

\* int(get_game_fractional_year(phase))
get_game_year(name) == get_game_fractional_year_tenths(name) \div 10

(***************************************************************************)
(* RandomAgent.respond (agents.py 64-122).                                 *)
(***************************************************************************)

WAIVE == <<"W","A","I","V","E">>

\* Disbandable without the test of game.welfare
Disbandable_AnyRules(g, sorted) ==
  /\ Contains(PhaseLongName(g.phase), <<"A","D","J","U","S","T","M","E","N","T","S">>)
  /\ Contains(LastTwo(sorted[1]), <<" ","D">>)

\* lines 75-79: a disbandable unit in an adjustment phase under welfare
Disbandable(g, sorted) ==
  /\ Contains(PhaseLongName(g.phase), <<"A","D","J","U","S","T","M","E","N","T","S">>)
  /\ Contains(LastTwo(sorted[1]), <<" ","D">>)
  /\ g.welfare

\* lines 75-84: the list random.choice draws from for one location, given
\* the location's list after the sort
ChoiceList(g, sorted) ==
  IF Disbandable(g, sorted) THEN <<WAIVE, sorted[1]>> ELSE sorted

\* line 71: params.possible_orders[loc].sort(), on the dict main passed in
SortInPlace(po, loc) == [po EXCEPT ![loc] = SortList(po[loc])]

\* lines 67-84: the loop over the orderable locations.  pick[loc] is the
\* position random.choice draws in the location's list.  The result holds
\* power_orders and the possible_orders dict as the loop leaves it.
RECURSIVE RandomOrders(_, _, _, _, _)
RandomOrders(g, locs, po, pick, power_orders) ==
  IF locs = <<>> THEN [orders |-> power_orders, possible_orders |-> po]
  ELSE LET loc == Head(locs)
       IN IF po[loc] # <<>>
          THEN LET sorted == SortInPlace(po, loc)
               IN RandomOrders(g, Tail(locs), sorted, pick,
                    Append(power_orders, ChoiceList(g, sorted[loc])[pick[loc]]))
          ELSE RandomOrders(g, Tail(locs), po, pick, power_orders)

\* the draws of random.choice that are in range for each list drawn from
PicksInRange(g, locs, po, pick) ==
  \A loc \in Locs :
    IF loc \in Range(locs) /\ po[loc] # <<>>
    THEN pick[loc] \in 1..Len(ChoiceList(g, SortList(po[loc])))
    ELSE pick[loc] = 1

\* line 102: the templated message
RandomMessage(recipient, power, phase, number) ==
  <<"H","e","l","l","o"," ">> \o recipient \o <<"!"," ","I">> \o <<"'">> \o <<"m"," ">> \o power
  \o <<" ","c","o","n","t","a","c","t","i","n","g"," ","y","o","u"," ","o","n"," ","t","u","r","n"," ">> \o PhaseLabel(phase)
  \o <<"."," ","H","e","r","e">> \o <<"'">> \o <<"s"," ","a"," ","r","a","n","d","o","m"," ","n","u","m","b","e","r",":"," ">> \o IntToStr(number) \o <<".">>

\* lines 98-100: the other powers, then "GLOBAL"
OtherPowers(power) ==
  SelectSeq(POWERS, LAMBDA p : p # power) \o <<GLOBAL>>

\* lines 64-122.  invalid and raises are the outcomes of the two
\* random.random() tests, recipient and number those of random.choice and
\* random.randint.  The result holds the exception (or none), the
\* AgentResponse and the possible_orders dict after the call.
RandomAgent_respond(g, power, po, pick, invalid, raises, recipient, number) ==
  LET chosen == RandomOrders(g, g.orderable[power], po, pick, <<>>)
      power_orders == IF invalid
                      THEN Append(chosen.orders, <<"R","a","n","d","o","m"," ","i","n","v","a","l","i","d"," ","o","r","d","e","r">>)
                      ELSE chosen.orders
  IN IF raises
     THEN [exc |-> "AgentCompletionError", response |-> EmptyResponse,
           possible_orders |-> chosen.possible_orders]
     ELSE [exc |-> NoExc,
           response |-> [EmptyResponse EXCEPT
             !.reasoning = JStr(<<"R","a","n","d","o","m","l","y"," ","g","e","n","e","r","a","t","e","d"," ","o","r","d","e","r","s"," ","a","n","d"," ","m","e","s","s","a","g","e","s",".">>),
             !.orders = power_orders,
             !.messages = IF ~g.no_press
                          THEN <<[k |-> recipient,
                                  v |-> RandomMessage(recipient, power, g.phase, number)]>>
                          ELSE <<>>],
           possible_orders |-> chosen.possible_orders]

(***************************************************************************)
(* ManualAgent.respond (agents.py 150-188).                                *)
(***************************************************************************)

\* ManualOrders without the test that the power owns the order's unit
RECURSIVE ManualOrders_AnyOwner(_, _, _, _)
ManualOrders_AnyOwner(orders_list, units, po, power_orders) ==
  IF orders_list = <<>> THEN [exc |-> NoExc, orders |-> power_orders]
  ELSE LET order == Head(orders_list)
           loc == Split(order)[2]
       IN IF loc \in DOMAIN po /\ order \in Range(po[loc])
          THEN ManualOrders_AnyOwner(Tail(orders_list), units, po, Append(power_orders, order))
          ELSE [exc |-> "AssertionError", orders |-> <<>>]

\* lines 157-164: the loop over the orders scripted for the phase; exc is
\* AssertionError when an owned unit's order is not in the legal list
RECURSIVE ManualOrders(_, _, _, _)
ManualOrders(orders_list, units, po, power_orders) ==
  IF orders_list = <<>> THEN [exc |-> NoExc, orders |-> power_orders]
  ELSE LET order == Head(orders_list)
           unit_type == Split(order)[1]
           loc == Split(order)[2]
       IN IF (unit_type \o <<" ">> \o loc) \in units
          THEN IF order \in Range(po[loc])
               THEN ManualOrders(Tail(orders_list), units, po, Append(power_orders, order))
               ELSE [exc |-> "AssertionError", orders |-> <<>>]
          ELSE ManualOrders(Tail(orders_list), units, po, power_orders)

\* lines 150-188.  manual_orders is the script loaded at construction.
ManualAgent_respond(manual_orders, g, power, po) ==
  LET current_phase == PhaseLabel(g.phase)
      r == IF DictHas(manual_orders, current_phase)
           THEN ManualOrders(DictGet(manual_orders, current_phase), Units(power), po, <<>>)
           ELSE [exc |-> NoExc, orders |-> <<>>]
  IN IF r.exc # NoExc
     THEN [exc |-> r.exc, response |-> EmptyResponse, possible_orders |-> po]
     ELSE [exc |-> NoExc,
           response |-> [EmptyResponse EXCEPT
             !.reasoning = JStr(<<"M","a","n","u","a","l","l","y"," ","s","p","e","c","i","f","i","e","d"," ","o","r","d","e","r","s"," ","a","n","d"," ","m","e","s","s","a","g","e","s",".">>),
             !.orders = r.orders],
           possible_orders |-> po]

\* The scripts a ManualAgent can be constructed with (the shapes that
\* pass the checks of __init__, lines 135-145).
ManualScripts ==
  { << [k |-> <<"S","1","9","0","1","M">>, v |-> <<<<"A"," ","P","A","R"," ","H">>, <<"A"," ","M","U","N"," ","H">>>>],
       [k |-> <<"F","1","9","0","1","M">>, v |-> <<<<"A"," ","M","U","N"," ","T","Y","R">>, <<"A"," ","B","R","E"," ","H">>, <<"A"," ","P","A","R"," ","H">>>>] >>,
    << [k |-> <<"S","1","9","0","1","M">>, v |-> <<<<"A"," ","P","A","R"," ","B","U","R">>>>] >> }

(***************************************************************************)
(* NoPressAgent.respond (agents.py 315-346).                               *)
(***************************************************************************)

\* lines 316-331: the policy's actions for the power, resolved to orders:
\* one legal order for each orderable location that has any
RECURSIVE PolicyOrders(_, _, _, _)
PolicyOrders(locs, po, pick, orders) ==
  IF locs = <<>> THEN orders
  ELSE IF po[Head(locs)] # <<>>
       THEN PolicyOrders(Tail(locs), po, pick, Append(orders, po[Head(locs)][pick[Head(locs)]]))
  ELSE PolicyOrders(Tail(locs), po, pick, orders)

PolicyPicksInRange(locs, po, pick) ==
  \A loc \in Locs :
    IF loc \in Range(locs) /\ po[loc] # <<>>
    THEN pick[loc] \in 1..Len(po[loc])
    ELSE pick[loc] = 1

\* lines 315-346
NoPressAgent_respond(g, power, po, pick) ==
  [exc |-> NoExc,
   response |-> [EmptyResponse EXCEPT
     !.reasoning = JStr(<<"O","r","d","e","r","s"," ","f","r","o","m"," ","n","o","-","p","r","e","s","s"," ","b","a","s","e","l","i","n","e"," ","p","o","l","i","c","y",".">>),
     !.orders = PolicyOrders(g.orderable[power], po, pick, <<>>)],
   possible_orders |-> po]

(***************************************************************************)
(* The backend (backends.py) and the completion preface (prompts.py).      *)
(***************************************************************************)

MaxTokens == 1

\* prompts.get_preface_prompt(params)
PrefacePrompt == <<"{","\"","r","e","a","s","o","n","i","n","g","\"",":"," ","\"">>

Bodies ==
  { <<"{","\"","r","e","a","s","o","n","i","n","g","\"",":","\"","r","\"",",","\"","o","r","d","e","r","s","\"",":","[","\"","A"," ","P","A","R"," ","H","\"","]",",","\"","m","e","s","s","a","g","e","s","\"",":","{","\"","f","r","a","n","c","e","\"",":","[","\"","h","i","\"",",","\""," ","t","h","e","r","e","\"","]","}","}">>,
    <<"{","\"","r","e","a","s","o","n","i","n","g","\"",":","\"","r","\"",",","\"","o","r","d","e","r","s","\"",":","[","\"","A"," ","P","A","R"," ","H","\"","]",",","\"","m","e","s","s","a","g","e","s","\"",":","{","\"","f","r","a","n","c","e","\"",":","[","\"","h","i","\"",",","\"","t","h","e","r","e","\"","]","}","}">>,
    <<"{","\"","r","e","a","s","o","n","i","n","g","\"",":","\"","r","\"",",","\"","o","r","d","e","r","s","\"",":","[","\"","A"," ","P","A","R"," ","H","\"","]",",","\"","m","e","s","s","a","g","e","s","\"",":","{","\"","g","e","r","m","a","n","y","\"",":","\"","h","i","\"",",","\"","G","L","O","B","A","L","\"",":","\"","\"","}","}">>,
    <<"{","\"","o","r","d","e","r","s","\"",":","[","]",",","\"","m","e","s","s","a","g","e","s","\"",":","{","}","}">>,
    <<"{","\"","r","e","a","s","o","n","i","n","g","\"",":","\"","r","\"",",","\"","o","r","d","e","r","s","\"",":","[","\"","A"," ","M","U","N"," ","H","\"","]","}">>,
    <<"{","\"","o","r","d","e","r","s","\"",":","[","\"","A"," ","P","A","R"," ","H","\"","]",",","\"","m","e","s","s","a","g","e","s","\"",":","[","\"","h","i","\"","]","}">>,
    <<"{","\"","o","r","d","e","r","s","\"",":","[","\"","A"," ","P","A","R"," ","H","\"","]",",","\"","m","e","s","s","a","g","e","s","\"",":","{","\"","G","L","O","B","A","L","\"",":","5",",","\"","f","r","a","n","c","e","\"",":","n","u","l","l",",","\"","G","e","r","m","a","n","y","\"",":","[","]",",","\"","x","\"",":","{","}","}","}">>,
    <<"{","\"","o","r","d","e","r","s","\"",":","[","\"","A"," ","P","A","R"," ","H","\"","]",",","\"","m","e","s","s","a","g","e","s","\"",":","{","\"","f","r","a","n","c","e","\"",":","[","1","]","}","}">>,
    <<"{","\"","r","e","a","s","o","n","i","n","g","\"",":","\"","r","\"",",","\"","o","r","d","e","r","s","\"",":","[","1",",","2","]",",","\"","m","e","s","s","a","g","e","s","\"",":","{","}","}">>,
    <<"{","\"","r","e","a","s","o","n","i","n","g","\"",":","\"","r","\"",",","\"","m","e","s","s","a","g","e","s","\"",":","{","}","}">>,
    <<"{","\"","o","r","d","e","r","s","\"",":","[","\"","A"," ","P","A","R"," ","H","\"","]",",","}">>,
    <<"{","\"","o","r","d","e","r","s","\"",":","\"","A"," ","P","A","R"," ","H","\"",",","\"","m","e","s","s","a","g","e","s","\"",":","{","\"","f","r","a","n","c","e","\"",":","\"","a","\"",",","\"","F","R","A","N","C","E","\"",":","\"","b","\"","}","}">>,
    <<"{","\"","o","r","d","e","r","s","\"",":","n","u","l","l",",","\"","m","e","s","s","a","g","e","s","\"",":","{","}","}">>,
    <<"n","o"," ","j","s","o","n"," ","h","e","r","e">>,
    <<"{","\"","o","r","d","e","r","s","\"",":","[">>,
    <<"{"," ","\"","r","e","a","s","o","n","i","n","g","\""," ",":"," ","\"","*","*","r","*","*","\"",","," ","\"","o","r","d","e","r","s","\""," ",":"," ","["," ","\"","A"," ","M","U","N"," ","H","\""," ","]",","," ","\"","m","e","s","s","a","g","e","s","\""," ",":"," ","{"," ","\"","g","l","o","b","a","l","\""," ",":"," ","t","r","u","e"," ","}"," ","}">>,
    <<"{","\"","o","r","d","e","r","s","\"",":","[","\"","A"," ","P","A","R"," ","H","\"",",","7","]",",","\"","m","e","s","s","a","g","e","s","\"",":","{","\"","f","r","a","n","c","e","\"",":","\"","h","i","\"","}","}">>,
    <<"r","\"",",","\"","o","r","d","e","r","s","\"",":","[","\"","A"," ","P","A","R"," ","H","\"","]",",","\"","m","e","s","s","a","g","e","s","\"",":","{","\"","f","r","a","n","c","e","\"",":","\"","h","i","\"","}","}">> }

Prefixes ==
  { <<>>, <<"p","r","o","s","e",".",".","."," ">>, <<"s","e","e"," ","{","x","}",":"," ">>, <<"*","*","a","s","s","i","s","t","a","n","t","*","*"," ">>, <<BackQuote,BackQuote,BackQuote,"\n">> }

Suffixes ==
  { <<>>, <<" ","t","r","a","i","l","i","n","g"," ","j","u","n","k">>, <<" ","e","n","d","}">>, <<"*","*","s","y","s","t","e","m","*","*","t","a","i","l">>, <<"\n",BackQuote,BackQuote,BackQuote>> }

\* The completion texts a backend can return: a body, with text some
\* models put before and after it.
AllCompletions == {p \o b \o s : p \in Prefixes, b \in Bodies, s \in Suffixes}

\* The completion texts the backend returns during a game.
GameCompletions ==
  { <<"p","r","o","s","e",".",".","."," ","{","\"","r","e","a","s","o","n","i","n","g","\"",":","\"","r","\"",",","\"","o","r","d","e","r","s","\"",":","[","\"","A"," ","P","A","R"," ","H","\"","]",",","\"","m","e","s","s","a","g","e","s","\"",":","{","\"","f","r","a","n","c","e","\"",":","[","\"","h","i","\"",",","\""," ","t","h","e","r","e","\"","]","}","}"," ","t","r","a","i","l","i","n","g"," ","j","u","n","k">>,
    <<"{","\"","r","e","a","s","o","n","i","n","g","\"",":","\"","r","\"",",","\"","o","r","d","e","r","s","\"",":","[","\"","A"," ","M","U","N"," ","H","\"","]","}">>,
    <<"{","\"","o","r","d","e","r","s","\"",":","[","\"","A"," ","P","A","R"," ","H","\"","]",",","\"","m","e","s","s","a","g","e","s","\"",":","[","\"","h","i","\"","]","}">>,
    <<"{","\"","r","e","a","s","o","n","i","n","g","\"",":","\"","r","\"",",","\"","o","r","d","e","r","s","\"",":","[","1",",","2","]",",","\"","m","e","s","s","a","g","e","s","\"",":","{","}","}">>,
    <<"r","\"",",","\"","o","r","d","e","r","s","\"",":","[","\"","A"," ","P","A","R"," ","H","\"","]",",","\"","m","e","s","s","a","g","e","s","\"",":","{","\"","f","r","a","n","c","e","\"",":","\"","h","i","\"","}","}">> }

NoBackend ==
  [exc |-> "not called", completion |-> <<>>,
   prompt_tokens |-> 0, completion_tokens |-> 0, total_tokens |-> 0]

\* self.backend.complete(...): a provider error, or a BackendResponse
\* whose total is the sum of its prompt and completion counts
BackendOutcomes(completions) ==
  { [NoBackend EXCEPT !.exc = "BackendError"] } \cup
  { [exc |-> NoExc, completion |-> c,
     prompt_tokens |-> p, completion_tokens |-> q, total_tokens |-> p + q] :
    c \in completions, p \in 0..MaxTokens, q \in 0..MaxTokens }

(***************************************************************************)
(* main (simulate_game.py 20-147).                                         *)
(***************************************************************************)

VARIABLES
  args,               \* the parsed arguments and the prompter built from them
  game,               \* the diplomacy.Game
  possible_orders,    \* main's cache of game.get_all_possible_orders()
  pc,                 \* where main is
  i,                  \* the position in game.powers of the power handled
  prompter_response,  \* the response of the last respond call
  exc,                \* the exception that ended main, if any
  stats,              \* the counters of the phase (lines 53-57)
  backend,            \* the outcome of the last backend call
  exported            \* "yes" once to_saved_game_format has been called

vars == <<args, game, possible_orders, pc, i, prompter_response, exc, stats,
          backend, exported>>

MaxYears == 1
MaxRandInt == 0

Models == {"random", "manual", "nopress", "api"}

ZeroStats ==
  [total_num_orders |-> 0, total_num_valid_orders |-> 0,
   valid_order_ratios |-> <<>>, total_message_sent |-> 0]

NoOrders == [p \in {FRANCE, GERMANY} |-> <<>>]

InitGame ==
  game \in { [phase |-> [season |-> "S", year |-> 1901, type |-> "M"],
              is_game_done |-> FALSE, orders |-> NoOrders, messages |-> <<>>,
              no_press |-> np, welfare |-> w,
              legal |-> v.legal, orderable |-> v.orderable,
              history_last |-> <<>>, processed |-> 0] :
             np \in BOOLEAN, w \in BOOLEAN, v \in MovementViews }

InitMain ==
  /\ possible_orders = [loc \in Locs |-> <<>>]
  /\ i = 1
  /\ prompter_response = EmptyResponse
  /\ exc = NoExc
  /\ stats = ZeroStats
  /\ backend = NoBackend
  /\ exported = "no"

Init ==
  /\ args \in { [model |-> m, max_years |-> y,
                 completion_preface |-> cp, manual_orders |-> mo] :
                m \in Models, y \in 1..MaxYears,
                cp \in BOOLEAN, mo \in ManualScripts \cup {<<>>} }
  /\ args.completion_preface => args.model = "api"
  /\ (args.manual_orders # <<>>) <=> (args.model = "manual")
  /\ InitGame
  /\ InitMain
  /\ pc = "while"

\* line 48: while not game.is_game_done
LoopTest ==
  /\ pc = "while"
  /\ pc' = IF game.is_game_done THEN "export" ELSE "fetch"
  /\ UNCHANGED <<args, game, possible_orders, i, prompter_response, exc, stats,
                 backend, exported>>

\* lines 49-58: the cache of the possible orders, the counters, the first power
Fetch ==
  /\ pc = "fetch"
  /\ possible_orders' = game.legal
  /\ stats' = ZeroStats
  /\ i' = 1
  /\ pc' = "respond"
  /\ UNCHANGED <<args, game, prompter_response, exc, backend, exported>>

\* lines 60-62: what main does with the outcome of prompter.respond: an
\* exception leaves main (there is no try statement), a response is kept
Responded(out) ==
  /\ possible_orders' = out.possible_orders
  /\ IF out.exc # NoExc
     THEN /\ pc' = "crashed"
          /\ exc' = out.exc
          /\ UNCHANGED prompter_response
     ELSE /\ pc' = "count"
          /\ prompter_response' = out.response
          /\ UNCHANGED exc
  /\ UNCHANGED <<args, game, i, stats, exported>>

PickRange == 1..2

RespondRandom ==
  /\ pc = "respond"
  /\ args.model = "random"
  /\ \E pick \in [Locs -> PickRange], invalid \in BOOLEAN, raises \in BOOLEAN,
        recipient \in Range(OtherPowers(POWERS[i])), number \in 0..MaxRandInt :
       /\ PicksInRange(game, game.orderable[POWERS[i]], possible_orders, pick)
       /\ Responded(RandomAgent_respond(game, POWERS[i], possible_orders, pick,
                                        invalid, raises, recipient, number))
  /\ UNCHANGED backend

RespondManual ==
  /\ pc = "respond"
  /\ args.model = "manual"
  /\ Responded(ManualAgent_respond(args.manual_orders, game, POWERS[i], possible_orders))
  /\ UNCHANGED backend

RespondNoPress ==
  /\ pc = "respond"
  /\ args.model = "nopress"
  /\ \E pick \in [Locs -> PickRange] :
       /\ PolicyPicksInRange(game.orderable[POWERS[i]], possible_orders, pick)
       /\ Responded(NoPressAgent_respond(game, POWERS[i], possible_orders, pick))
  /\ UNCHANGED backend

Preface == IF args.completion_preface THEN PrefacePrompt ELSE <<>>

RespondAPIWith(completions) ==
  /\ pc = "respond"
  /\ args.model = "api"
  /\ \E b \in BackendOutcomes(completions) :
       /\ backend' = b
       /\ LET out == APIAgent_respond(b, Preface, game.no_press)
          IN Responded([exc |-> out.exc, response |-> out.response,
                        possible_orders |-> possible_orders])

RespondAPI == RespondAPIWith(GameCompletions)

\* lines 68-82: the valid orders of the response and its ratio
RECURSIVE CountValidOrders(_, _, _)
CountValidOrders(g, power, orders) ==
  IF orders = <<>> THEN 0
  ELSE LET word == Split(Head(orders))
           unit == Join(<<" ">>, SubSeq(word, 1, IF Len(word) < 2 THEN Len(word) ELSE 2))
           destination == Join(<<" ">>, SubSeq(word, 3, Len(word)))
       IN (IF ValidOrder(g, power, unit, destination) THEN 1 ELSE 0)
          + CountValidOrders(g, power, Tail(orders))

CountValid ==
  /\ pc = "count"
  /\ LET num_valid_orders == CountValidOrders(game, POWERS[i], prompter_response.orders)
         num_orders == Len(prompter_response.orders)
     IN IF num_orders = 0
        THEN /\ pc' = "crashed"
             /\ exc' = "ZeroDivisionError"
             /\ UNCHANGED stats
        ELSE /\ pc' = "set_orders"
             /\ stats' = [stats EXCEPT
                  !.total_num_orders = @ + num_orders,
                  !.total_num_valid_orders = @ + num_valid_orders,
                  !.valid_order_ratios = Append(@, <<num_valid_orders, num_orders>>)]
             /\ UNCHANGED exc
  /\ UNCHANGED <<args, game, possible_orders, i, prompter_response, backend, exported>>

\* line 85
SubmitOrders ==
  /\ pc = "set_orders"
  /\ game' = SetOrders(game, POWERS[i], prompter_response.orders)
  /\ pc' = "send_messages"
  /\ UNCHANGED <<args, possible_orders, i, prompter_response, exc, stats, backend, exported>>

\* SendMessages with the for loop of line 58 left after the first power
SendMessages_SkipRest ==
  /\ pc = "send_messages"
  /\ game' = AddMessages(game, POWERS[i], prompter_response.messages)
  /\ stats' = [stats EXCEPT !.total_message_sent = @ + Len(prompter_response.messages)]
  /\ i' = i
  /\ pc' = "process"
  /\ UNCHANGED <<args, possible_orders, prompter_response, exc, backend, exported>>

\* lines 88-97, and the step of the for loop of line 58
SendMessages ==
  /\ pc = "send_messages"
  /\ game' = AddMessages(game, POWERS[i], prompter_response.messages)
  /\ stats' = [stats EXCEPT !.total_message_sent = @ + Len(prompter_response.messages)]
  /\ IF i < Len(POWERS)
     THEN i' = i + 1 /\ pc' = "respond"
     ELSE i' = i /\ pc' = "process"
  /\ UNCHANGED <<args, possible_orders, prompter_response, exc, backend, exported>>

\* line 100: game.process().  The engine can find the game over when it
\* processes the last phase of a year.
ProcessPhase ==
  /\ pc = "process"
  /\ \E v \in ViewsFor(NextPhase(game.phase)), done \in BOOLEAN :
       /\ done => game.phase.season = "W"
       /\ game' = Process(game, v, done)
  /\ pc' = "check_end"
  /\ UNCHANGED <<args, possible_orders, i, prompter_response, exc, stats, backend, exported>>

\* lines 103-105
CheckEnd ==
  /\ pc = "check_end"
  /\ game' = IF get_game_year(game.history_last) > args.max_years
             THEN Finish(game) ELSE game
  /\ pc' = "log"
  /\ UNCHANGED <<args, possible_orders, i, prompter_response, exc, stats, backend, exported>>

\* lines 107-137: the log object; line 114 divides by total_num_orders
LogPhase ==
  /\ pc = "log"
  /\ IF stats.total_num_orders = 0
     THEN pc' = "crashed" /\ exc' = "ZeroDivisionError"
     ELSE pc' = "while" /\ UNCHANGED exc
  /\ UNCHANGED <<args, game, possible_orders, i, prompter_response, stats, backend, exported>>

\* lines 139-147.  args.no_save is read here and nowhere else: its value
\* is drawn where it is read.
Export ==
  /\ pc = "export"
  /\ \E no_save \in BOOLEAN : exported' = IF no_save THEN "no_save" ELSE "yes"
  /\ pc' = "done"
  /\ UNCHANGED <<args, game, possible_orders, i, prompter_response, exc, stats, backend>>

Next ==
  \/ LoopTest
  \/ Fetch
  \/ RespondRandom
  \/ RespondManual
  \/ RespondNoPress
  \/ RespondAPI
  \/ CountValid
  \/ SubmitOrders
  \/ SendMessages
  \/ ProcessPhase
  \/ CheckEnd
  \/ LogPhase
  \/ Export

Spec == Init /\ [][Next]_vars

(***************************************************************************)
(* APIAgent.respond on its own: main is at its first respond call with an  *)
(* APIAgent, and the backend returns any of the completion texts.          *)
(***************************************************************************)

InitAPI ==
  /\ args \in { [model |-> "api", max_years |-> y,
                 completion_preface |-> cp, manual_orders |-> <<>>] :
                y \in 1..MaxYears, cp \in BOOLEAN }
  /\ InitGame
  /\ possible_orders = game.legal
  /\ i = 1
  /\ prompter_response = EmptyResponse
  /\ exc = NoExc
  /\ stats = ZeroStats
  /\ backend = NoBackend
  /\ exported = "no"
  /\ pc = "respond"

RespondAPIAll == RespondAPIWith(AllCompletions)

NextAPI == RespondAPIAll

SpecAPI == InitAPI /\ [][NextAPI]_vars

(***************************************************************************)
(* Properties.                                                             *)
(***************************************************************************)

\* The text the response pipeline of APIAgent.respond starts from
RawText == Preface \o backend.completion

\* main is just past a respond call of an APIAgent whose backend returned
AfterAPIRespond ==
  /\ args.model = "api"
  /\ pc \in {"count", "crashed"}
  /\ backend.exc = NoExc

ExampleText ==
  <<"p","r","o","s","e",".",".","."," ","{","\"","r","e","a","s","o","n","i","n","g","\"",":","\"","r","\"",",","\"","o","r","d","e","r","s","\"",":","[","\"","A"," ","P","A","R"," ","H","\"","]",",","\"","m","e","s","s","a","g","e","s","\"",":","{","\"","f","r","a","n","c","e","\"",":","[","\"","h","i","\"",",","\""," ","t","h","e","r","e","\"","]","}","}"," ","t","r","a","i","l","i","n","g"," ","j","u","n","k">>

\* C1: when a participant's respond raises AgentCompletionError the phase
\* still completes and the game loop goes on: main never ends with an
\* AgentCompletionError.
C1_CompletionErrorNotFatal ==
  ~(pc = "crashed" /\ exc = "AgentCompletionError")

\* The failures C2 lists, read off the raw text: no "{" or no "}", a
\* sliced span that does not parse, an object without "orders", an
\* "orders" list with an element that is not a string.
ListedFailure(raw) ==
  \/ "{" \notin Range(raw)
  \/ "}" \notin Range(raw)
  \/ LET span == SliceObject(CleanCompletion(raw))
     IN \/ span.exc # NoExc
        \/ ~JsonLoads(span.text).ok
        \/ LET obj == JsonLoads(span.text).val.v
           IN \/ ~DictHas(obj, <<"o","r","d","e","r","s">>)
              \/ LET orders == DictGet(obj, <<"o","r","d","e","r","s">>)
                 IN orders.t = "list" /\ \E k \in DOMAIN orders.v : orders.v[k].t # "str"

\* C2: every failure of APIAgent.respond leaves it as AgentCompletionError
\* and as nothing else: a raw text with one of the listed failures, or a
\* backend error, makes respond raise AgentCompletionError and return no
\* response, and respond raises no other exception.
C2_FailuresAreCompletionErrors ==
  (args.model = "api" /\ pc \in {"count", "crashed"}) =>
    /\ pc = "crashed" => exc = "AgentCompletionError"
    /\ pc = "count" => exc = NoExc
    /\ (backend.exc # NoExc \/ ListedFailure(RawText)) =>
         (pc = "crashed" /\ exc = "AgentCompletionError"
          /\ prompter_response = EmptyResponse)

C2_Witness ==
  /\ AfterAPIRespond
  /\ ~args.completion_preface
  /\ backend.completion = <<"{","\"","r","e","a","s","o","n","i","n","g","\"",":","\"","r","\"",",","\"","o","r","d","e","r","s","\"",":","[","1",",","2","]",",","\"","m","e","s","s","a","g","e","s","\"",":","{","}","}">>
  /\ pc = "crashed"
  /\ exc = "AgentCompletionError"

\* C3 as stated: the example text (negotiation enabled, no preface) yields
\* reasoning "r", orders ["A PAR H"] and messages {"FRANCE": "hi there"}.
C3_ExampleAsStated ==
  (AfterAPIRespond /\ ~args.completion_preface /\ ~game.no_press
   /\ backend.completion = ExampleText) =>
    /\ pc = "count"
    /\ prompter_response.reasoning = JStr(<<"r">>)
    /\ prompter_response.orders = <<<<"A"," ","P","A","R"," ","H">>>>
    /\ prompter_response.messages = <<[k |-> FRANCE, v |-> <<"h","i"," ","t","h","e","r","e">>]>>

\* The objects of C3 and what each holds: the reasoning, the orders and
\* the messages in the form the engine is given (upper-case recipient, a
\* list joined with one space between its elements, no empty text).
TidyObjects ==
  { [text |-> <<"{","\"","r","e","a","s","o","n","i","n","g","\"",":","\"","r","\"",",","\"","o","r","d","e","r","s","\"",":","[","\"","A"," ","P","A","R"," ","H","\"","]",",","\"","m","e","s","s","a","g","e","s","\"",":","{","\"","f","r","a","n","c","e","\"",":","[","\"","h","i","\"",",","\""," ","t","h","e","r","e","\"","]","}","}">>,
     reasoning |-> <<"r">>, orders |-> <<<<"A"," ","P","A","R"," ","H">>>>,
     messages |-> <<[k |-> FRANCE, v |-> <<"h","i"," "," ","t","h","e","r","e">>]>>],
    [text |-> <<"{","\"","r","e","a","s","o","n","i","n","g","\"",":","\"","r","\"",",","\"","o","r","d","e","r","s","\"",":","[","\"","A"," ","P","A","R"," ","H","\"","]",",","\"","m","e","s","s","a","g","e","s","\"",":","{","\"","f","r","a","n","c","e","\"",":","[","\"","h","i","\"",",","\"","t","h","e","r","e","\"","]","}","}">>,
     reasoning |-> <<"r">>, orders |-> <<<<"A"," ","P","A","R"," ","H">>>>,
     messages |-> <<[k |-> FRANCE, v |-> <<"h","i"," ","t","h","e","r","e">>]>>],
    [text |-> <<"{","\"","r","e","a","s","o","n","i","n","g","\"",":","\"","r","\"",",","\"","o","r","d","e","r","s","\"",":","[","\"","A"," ","P","A","R"," ","H","\"","]",",","\"","m","e","s","s","a","g","e","s","\"",":","{","\"","g","e","r","m","a","n","y","\"",":","\"","h","i","\"",",","\"","G","L","O","B","A","L","\"",":","\"","\"","}","}">>,
     reasoning |-> <<"r">>, orders |-> <<<<"A"," ","P","A","R"," ","H">>>>,
     messages |-> <<[k |-> GERMANY, v |-> <<"h","i">>]>>],
    [text |-> <<"{","\"","o","r","d","e","r","s","\"",":","[","]",",","\"","m","e","s","s","a","g","e","s","\"",":","{","}","}">>,
     reasoning |-> Placeholder, orders |-> <<>>, messages |-> <<>>] }

\* prose that holds no "{" and no "**"; junk that holds no "}"
TidyProse(p) == "{" \notin Range(p) /\ ~Contains(p, <<"*","*">>)
TidyJunk(s) == "}" \notin Range(s)

\* C3, amended: for a raw text made of prose without "{" and "**", one
\* JSON object and junk without "}", the response carries the object's
\* reasoning and orders and, when negotiation is enabled, its messages
\* with the recipient upper-cased and a list value joined with one space
\* between its elements; the example text yields {"FRANCE": "hi  there"}.
C3_ProseAroundObject ==
  (AfterAPIRespond /\ ~args.completion_preface) =>
    \A p \in Prefixes, o \in TidyObjects, s \in Suffixes :
      (TidyProse(p) /\ TidyJunk(s) /\ backend.completion = p \o o.text \o s) =>
        /\ pc = "count"
        /\ prompter_response.reasoning = JStr(o.reasoning)
        /\ prompter_response.orders = o.orders
        /\ prompter_response.messages = IF game.no_press THEN <<>> ELSE o.messages

C3_Witness ==
  /\ AfterAPIRespond
  /\ ~args.completion_preface
  /\ ~game.no_press
  /\ backend.completion = ExampleText
  /\ pc = "count"
  /\ prompter_response.messages = <<[k |-> FRANCE, v |-> <<"h","i"," "," ","t","h","e","r","e">>]>>

\* C4: when the game is no_press, the messages of every AgentResponse an
\* agent returns are empty, and so no message reaches the engine.
C4_NoPressNoMessages ==
  game.no_press => (prompter_response.messages = <<>> /\ game.messages = <<>>)

C4_Witness ==
  /\ game.no_press
  /\ AfterAPIRespond
  /\ ~args.completion_preface
  /\ backend.completion = ExampleText
  /\ pc = "count"
  /\ prompter_response.orders = <<<<"A"," ","P","A","R"," ","H">>>>
  /\ prompter_response.messages = <<>>

IsUpperCase(s) == \A k \in DOMAIN s : \A j \in DOMAIN LowerChars : s[k] # LowerChars[j]

\* C5: in every AgentResponse APIAgent.respond returns, each message has
\* an upper-case recipient and a non-empty text.
C5_MessagesNormalized ==
  (AfterAPIRespond /\ pc = "count") =>
    \A k \in DOMAIN prompter_response.messages :
      /\ IsUpperCase(prompter_response.messages[k].k)
      /\ prompter_response.messages[k].v # <<>>

C5_Witness ==
  /\ AfterAPIRespond
  /\ ~args.completion_preface
  /\ backend.completion =
       <<"{","\"","r","e","a","s","o","n","i","n","g","\"",":","\"","r","\"",",","\"","o","r","d","e","r","s","\"",":","[","\"","A"," ","P","A","R"," ","H","\"","]",",","\"","m","e","s","s","a","g","e","s","\"",":","{","\"","g","e","r","m","a","n","y","\"",":","\"","h","i","\"",",","\"","G","L","O","B","A","L","\"",":","\"","\"","}","}">>
  /\ pc = "count"
  /\ prompter_response.messages = <<[k |-> GERMANY, v |-> <<"h","i">>]>>

\* C6: a game with only RandomAgent participants runs until a processed
\* phase's year exceeds the final year, main then leaves the loop and hands
\* the game to the export: main never ends before that.
C6_RandomGameReachesExport ==
  args.model = "random" => pc # "crashed"

\* C7: respond is read-only on what main passes it: a respond call leaves
\* the cached legal-order mapping (the order of each list included) and the
\* game as they were.
C7_RespondReadOnly ==
  [][pc = "respond" => (possible_orders' = possible_orders /\ game' = game)]_vars

\* the lexicographically first element of a non-empty list of strings
LexFirst(l) ==
  CHOOSE x \in Range(l) : \A y \in Range(l) : ~StrLess(y, x)

\* the orderable locations of a power that have a legal order
RECURSIVE WithLegalOrders(_)
WithLegalOrders(locs) ==
  IF locs = <<>> THEN <<>>
  ELSE IF game.legal[Head(locs)] # <<>>
       THEN <<Head(locs)>> \o WithLegalOrders(Tail(locs))
  ELSE WithLegalOrders(Tail(locs))

\* C8: the orders of a RandomAgent response are one order for each
\* orderable location that has legal orders, in turn, each a member of the
\* location's legal list or, for a disbandable unit in an adjustment phase
\* under welfare, "WAIVE" or the lexicographically first legal order (a
\* member of the list only when the unit is not disbandable); after them
\* comes at most the one deliberately invalid order.
C8_RandomChoiceLegal ==
  (args.model = "random" /\ pc = "count") =>
    LET locs == WithLegalOrders(game.orderable[POWERS[i]])
        orders == prompter_response.orders
        disbandable(loc) == /\ game.phase.type = "A"
                            /\ game.welfare
                            /\ LastTwo(LexFirst(game.legal[loc])) = <<" ","D">>
    IN /\ Len(orders) \in {Len(locs), Len(locs) + 1}
       /\ \A k \in DOMAIN locs :
            IF disbandable(locs[k])
            THEN orders[k] \in {WAIVE, LexFirst(game.legal[locs[k]])}
            ELSE orders[k] \in Range(game.legal[locs[k]])
       /\ Len(orders) = Len(locs) + 1 => orders[Len(orders)] = <<"R","a","n","d","o","m"," ","i","n","v","a","l","i","d"," ","o","r","d","e","r">>

C8_Witness ==
  /\ args.model = "random"
  /\ pc = "count"
  /\ game.phase.type = "A"
  /\ game.welfare
  /\ i = 1
  /\ game.legal[PAR] = <<<<"A"," ","P","A","R"," ","D">>>>
  /\ prompter_response.orders = <<WAIVE>>

\* the scripted orders of the phase whose subject unit the power owns
ScriptedFor(power) ==
  IF DictHas(args.manual_orders, PhaseLabel(game.phase))
  THEN SelectSeq(DictGet(args.manual_orders, PhaseLabel(game.phase)),
                 LAMBDA o : SubSeq(o, 1, 5) \in Units(power))
  ELSE <<>>

OrderIsLegal(o) == o \in Range(possible_orders[SubSeq(o, 3, 5)])

\* C9: ManualAgent.respond returns exactly the orders scripted for the
\* current phase whose subject unit the power owns, in script order, all of
\* them legal; it fails with an AssertionError, and never with an
\* AgentCompletionError, exactly when one of them is not legal; a phase
\* absent from the script gives no orders.
C9_ManualOrders ==
  (args.model = "manual" /\ pc \in {"count", "crashed"}) =>
    LET scripted == ScriptedFor(POWERS[i])
        all_legal == \A k \in DOMAIN scripted : OrderIsLegal(scripted[k])
    IN /\ pc = "count" => (all_legal /\ prompter_response.orders = scripted)
       /\ (pc = "crashed" /\ exc = "AssertionError") => ~all_legal
       /\ ~all_legal => (pc = "crashed" /\ exc = "AssertionError")
       /\ exc # "AgentCompletionError"

C9_Witness ==
  /\ args.model = "manual"
  /\ pc = "count"
  /\ PhaseLabel(game.phase) = <<"F","1","9","0","1","M">>
  /\ i = 1
  /\ Len(DictGet(args.manual_orders, <<"F","1","9","0","1","M">>)) = 3
  /\ prompter_response.orders = <<<<"A"," ","P","A","R"," ","H">>>>

FirstRespond ==
  /\ pc = "fetch"
  /\ i' = 1
  /\ possible_orders' = game.legal
  /\ stats' = ZeroStats
  /\ game' = game

NextRespond ==
  /\ pc = "send_messages"
  /\ i < Len(POWERS)
  /\ i' = i + 1
  /\ possible_orders' = possible_orders
  /\ game.orders[POWERS[i]] = prompter_response.orders

OrdersOfPowerSubmitted ==
  /\ pc = "set_orders"
  /\ game' = [game EXCEPT !.orders[POWERS[i]] = prompter_response.orders]
  /\ Len(stats.valid_order_ratios) = i
  /\ pc' = "send_messages"
  /\ i' = i

MessagesOfPowerSubmitted ==
  /\ pc = "send_messages"
  /\ game.orders[POWERS[i]] = prompter_response.orders
  /\ game'.orders = game.orders
  /\ game'.phase = game.phase

PhaseAdvancedOnce ==
  /\ pc = "process"
  /\ i = Len(POWERS)
  /\ Len(stats.valid_order_ratios) = Len(POWERS)
  /\ game.orders[POWERS[i]] = prompter_response.orders
  /\ game'.processed = game.processed + 1
  /\ game'.phase = NextPhase(game.phase)
  /\ pc' = "check_end"

IterationStarts ==
  /\ pc = "while"
  /\ ~game.is_game_done
  /\ game.orders = NoOrders
  /\ game.messages = <<>>

ExportAfterLoop ==
  /\ pc = "export"
  /\ game.is_game_done
  /\ exported = "no"
  /\ game' = game
  /\ pc' = "done"

C11_StepsOrdered ==
  [][ /\ (pc' = "respond") => (FirstRespond \/ NextRespond)
      /\ (pc = "respond") => (pc' \in {"count", "crashed"} /\ i' = i)
      /\ (pc' = "fetch") => IterationStarts
      /\ (possible_orders' # possible_orders) => pc \in {"fetch", "respond"}
      /\ (game'.orders # game.orders /\ game'.processed = game.processed) =>
           OrdersOfPowerSubmitted
      /\ (game'.messages # game.messages /\ game'.processed = game.processed) =>
           MessagesOfPowerSubmitted
      /\ (pc' = "set_orders") => (pc = "count" /\ i' = i)
      /\ (pc = "set_orders") => OrdersOfPowerSubmitted
      /\ (game'.processed # game.processed \/ game'.phase # game.phase
          \/ pc = "process" \/ pc' = "check_end") => PhaseAdvancedOnce
      /\ (pc' = "process") => (pc = "send_messages" /\ i = Len(POWERS) /\ i' = i)
      /\ (pc' = "while") => (pc = "log" /\ game' = game)
      /\ (pc' = "log") => (pc = "check_end" /\ game'.processed = game.processed)
      /\ (exported' # exported \/ pc' = "done" \/ pc = "export") => ExportAfterLoop
      /\ (pc' = "export") => (pc = "while" /\ game.is_game_done)
      /\ pc \notin {"done", "crashed"} ]_vars

\* a game of three processed phases that was exported
C11_Witness ==
  /\ pc = "done"
  /\ exported = "yes"
  /\ game.processed >= 3
  /\ stats.total_num_orders >= Len(POWERS)

\* C12: the statistics of a phase never end main.  Whatever the agents
\* respond, a response with no orders included, the division of line 76
\* and the division of line 114 are defined, so that no ZeroDivisionError
\* leaves main, and the number of valid orders counted in a phase is at
\* most the number of orders counted.
C12_StatisticsNeverAbort ==
  /\ exc # "ZeroDivisionError"
  /\ stats.total_num_valid_orders <= stats.total_num_orders

====
